---- MODULE Spec2Model ----
(***************************************************************************)
(* SecurePaste anonymizer (securepaste_anonymizer.py): the module load,    *)
(* the per-request pipeline anonymize_text, the recognizer factory         *)
(* create_custom_recognizers and the validator validate_custom_pattern.    *)
(*                                                                         *)
(* JSON values are kept as abstract syntax.  A dict key that is missing is *)
(* the value Absent, a JSON value that is not a string is NonString.  A    *)
(* score is a record [k, v]: k is the JSON kind of the value and v its     *)
(* value in hundredths (0.8 is 80).  The Presidio engines are external:    *)
(* what analyzer.analyze returns is an input of the step that calls it,    *)
(* and ANONYMIZER.anonymize is recorded by the arguments it was given.     *)
(***************************************************************************)
EXTENDS Integers, Sequences, FiniteSets, TLC

VARIABLES
    installed,           \* environment: the presidio packages can be imported
    module,              \* "unloaded" | "loaded" | "failed" (module import)
    PRESIDIO_AVAILABLE,  \* module global, lines 6-14
    registry,            \* analyzer object -> recognizers of its registry
    req,                 \* per caller: the anonymize_text call in progress
    vin,                 \* validate_custom_pattern: the pattern_json given
    vout,                \* validate_custom_pattern: what the call produced
    cin,                 \* create_custom_recognizers: the list given
    cout                 \* create_custom_recognizers: what the call produced

vars == <<installed, module, PRESIDIO_AVAILABLE, registry, req, vin, vout, cin, cout>>

----------------------------------------------------------------------------
(* Values *)

Absent == "<absent>"
NonString == "<non-string>"

ScoreAbsent == [k |-> "absent", v |-> 0]
Num(n) == [k |-> "num", v |-> n]
ScoreNaN == [k |-> "nan", v |-> 0]
ScoreTrue == [k |-> "bool", v |-> 100]
ScoreFalse == [k |-> "bool", v |-> 0]
ScoreString == [k |-> "str", v |-> 0]
ScoreNull == [k |-> "null", v |-> 0]

\* Python truth value of dict.get(key) with None for a missing key
Truthy(x) == x \notin {Absent, "", "false"}

\* dict.get(key, default)
Get(x, default) == IF x = Absent THEN default ELSE x

\* re.compile(pattern): "ok", or the exception it raises
BadRegexes == {"(", "[a"}
ReCompile(p) ==
    IF p = NonString THEN "TypeError"
    ELSE IF p \in BadRegexes THEN "re.error"
    ELSE "ok"

\* Python comparisons of a JSON number with a float literal; every
\* comparison with NaN is False, and True/False compare as 1/0.
IsIntOrFloat(s) == s.k \in {"num", "nan", "bool"}
LessThan(s, n) == s.k \in {"num", "bool"} /\ s.v < n
GreaterThan(s, n) == s.k \in {"num", "bool"} /\ s.v > n

DEFAULT_SCORE == 80
MIN_CONFIDENCE == 10
MAX_CONFIDENCE == 100
DEFAULT_THRESHOLD == 35

valid_methods == {"redact", "replace", "mask", "hash", "encrypt"}

----------------------------------------------------------------------------
(* create_operator_config, lines 176-188 *)

NoParams == [new_value |-> "", masking_char |-> "", chars_to_mask |-> 0, from_end |-> FALSE]

OperatorConfig(name, params) == [operator_name |-> name, params |-> params]

REDACTED == "[REDACTED]"
CHARS_TO_MASK == 7

CreateOperatorMutFallback(method, custom_replacement) ==
    IF method \in valid_methods
    THEN IF method = "replace"
         THEN OperatorConfig("replace",
                  [NoParams EXCEPT !.new_value =
                      IF Truthy(custom_replacement) THEN custom_replacement ELSE REDACTED])
         ELSE IF method = "mask"
         THEN OperatorConfig("mask",
                  [NoParams EXCEPT !.masking_char = "*", !.chars_to_mask = CHARS_TO_MASK,
                                   !.from_end = FALSE])
         ELSE OperatorConfig(method, NoParams)
    ELSE OperatorConfig("replace", [NoParams EXCEPT !.new_value = REDACTED])

create_operator_config(method, custom_replacement) ==
    IF method = "redact" THEN OperatorConfig("redact", NoParams)
    ELSE IF method = "replace" THEN
        OperatorConfig("replace",
            [NoParams EXCEPT !.new_value =
                IF Truthy(custom_replacement) THEN custom_replacement ELSE REDACTED])
    ELSE IF method = "mask" THEN
        OperatorConfig("mask",
            [NoParams EXCEPT !.masking_char = "*", !.chars_to_mask = CHARS_TO_MASK,
                             !.from_end = FALSE])
    ELSE IF method = "hash" THEN OperatorConfig("hash", NoParams)
    ELSE IF method = "encrypt" THEN OperatorConfig("encrypt", NoParams)
    ELSE OperatorConfig("redact", NoParams)

----------------------------------------------------------------------------
(* create_custom_recognizers, lines 113-147 *)

Pattern(name, regex, score) == [name |-> name, regex |-> regex, score |-> score]

\* CustomPatternRecognizer.__init__, lines 84-94, with the one pattern of
\* lines 128-132
CustomPatternRecognizer(name, patterns, entity_type) ==
    [name |-> name, patterns |-> patterns, supported_entity |-> entity_type]

\* The body of the try block for one descriptor: the exception raised, or "none"
RecognizerError(pc) ==
    IF pc.pattern = Absent THEN "KeyError"
    ELSE IF ReCompile(pc.pattern) # "ok" THEN ReCompile(pc.pattern)
    ELSE IF pc.name = Absent THEN "KeyError"
    ELSE IF pc.entity_type = Absent THEN "KeyError"
    ELSE "none"

\* lines 128-139
RecognizerOf(pc) ==
    LET pattern == Pattern(pc.name, pc.pattern,
                           (IF pc.confidence_score.k = "absent" THEN Num(DEFAULT_SCORE)
                            ELSE pc.confidence_score).v) IN
    CustomPatternRecognizer(pc.name, <<pattern>>, pc.entity_type)

CaughtMutKeyErrorOnly(exc) == exc = "KeyError"

\* line 143: except Exception catches every exception the try block raises
CaughtByExcept(exc) == exc \in {"KeyError", "re.error", "TypeError", "ValueError"}

\* Does the call let an exception out
CreateRaises(cfgs) ==
    \E i \in DOMAIN cfgs :
        /\ Truthy(Get(cfgs[i].enabled, "true"))
        /\ RecognizerError(cfgs[i]) # "none"
        /\ ~CaughtByExcept(RecognizerError(cfgs[i]))

\* Is the descriptor passed over by the enabled test of line 120
IsEnabled(pc) == Truthy(Get(pc.enabled, "true"))

RECURSIVE CreateMutAbort(_)
CreateMutAbort(cfgs) ==
    IF cfgs = <<>> THEN <<>>
    ELSE LET pc == Head(cfgs) IN
         IF ~IsEnabled(pc) THEN CreateMutAbort(Tail(cfgs))
         ELSE IF RecognizerError(pc) # "none" THEN <<>>
         ELSE <<RecognizerOf(pc)>> \o CreateMutAbort(Tail(cfgs))

RECURSIVE create_custom_recognizers(_)
create_custom_recognizers(custom_patterns_config) ==
    IF custom_patterns_config = <<>> THEN <<>>
    ELSE LET pc == Head(custom_patterns_config)
             rest == create_custom_recognizers(Tail(custom_patterns_config)) IN
         IF ~IsEnabled(pc) THEN rest
         ELSE IF RecognizerError(pc) # "none" THEN rest
         ELSE <<RecognizerOf(pc)>> \o rest

----------------------------------------------------------------------------
(* validate_custom_pattern, lines 433-467 *)

Failure(msg) == [raised |-> FALSE, success |-> FALSE, error |-> msg]
Passed == [raised |-> FALSE, success |-> TRUE, error |-> ""]

\* json.loads: "malformed" raises JSONDecodeError, "array" is a value that
\* has no .get, "object" gives the dict
validate_custom_pattern(pattern_json) ==
    IF pattern_json.kind = "malformed" THEN Failure("Invalid JSON")
    ELSE IF pattern_json.kind # "object" THEN Failure("AttributeError: no attribute 'get'")
    ELSE LET pc == pattern_json.obj
             confidence == IF pc.confidence_score.k = "absent" THEN Num(DEFAULT_SCORE)
                           ELSE pc.confidence_score
             method == Get(pc.anonymization_method, "redact") IN
         IF ~Truthy(pc.name) THEN Failure("Missing required field: name")
         ELSE IF ~Truthy(pc.pattern) THEN Failure("Missing required field: pattern")
         ELSE IF ~Truthy(pc.entity_type) THEN Failure("Missing required field: entity_type")
         ELSE IF ReCompile(pc.pattern) = "re.error" THEN Failure("Invalid regex pattern")
         ELSE IF ReCompile(pc.pattern) = "TypeError" THEN
             Failure("first argument must be string or compiled pattern")
         ELSE IF ~IsIntOrFloat(confidence) \/ LessThan(confidence, MIN_CONFIDENCE)
                 \/ GreaterThan(confidence, MAX_CONFIDENCE) THEN
             Failure("Confidence score must be between 0.1 and 1.0")
         ELSE IF method \notin valid_methods THEN Failure("Invalid anonymization method")
         ELSE Passed

----------------------------------------------------------------------------
(* Module load, lines 6-14, 16-77 and 172-174 *)

\* PasswordPatternRecognizer.PATTERNS, lines 27-64
PASSWORD_PATTERNS == <<
    Pattern("password_colon_pattern", "<colon>", 80),
    Pattern("password_equals_pattern", "<equals>", 80),
    Pattern("password_is_pattern", "<is>", 70),
    Pattern("password_quoted_double", "<double>", 90),
    Pattern("password_quoted_single", "<single>", 90),
    Pattern("login_credentials_pattern", "<login>", 85) >>

PasswordPatternRecognizer ==
    [name |-> "PasswordPatternRecognizer", patterns |-> PASSWORD_PATTERNS,
     supported_entity |-> "PASSWORD"]

\* AnalyzerEngine(): the registry of a new engine holds the recognizers the
\* library predefines; one of them stands for all
PredefinedRecognizers ==
    {[name |-> "EmailRecognizer", patterns |-> <<Pattern("Email (Medium)", "<email>", 50)>>,
      supported_entity |-> "EMAIL_ADDRESS"]}

SeqToSet(s) == {s[i] : i \in DOMAIN s}

\* The engine object setup_analyzer_with_custom_patterns fills: a new one
\* (line 158), whose registry is the predefined one.  id names the object,
\* 0 being the module-level ANALYZER.
ReuseGlobalAnalyzer(reg, r) ==
    IF r = 0 THEN [id |-> 0, base |-> PredefinedRecognizers] ELSE [id |-> 0, base |-> reg[0]]
NewAnalyzerEngine(reg, r) == [id |-> r, base |-> PredefinedRecognizers]

\* setup_analyzer_with_custom_patterns, lines 149-170: the registries after
\* the call made for r (r = 0: the call of line 173, with no config)
setup_analyzer_with_custom_patterns(reg, r, custom_patterns_config) ==
    LET analyzer == NewAnalyzerEngine(reg, r)
        custom == IF custom_patterns_config # <<>>
                  THEN SeqToSet(create_custom_recognizers(custom_patterns_config))
                  ELSE {} IN
    [reg EXCEPT ![analyzer.id] = analyzer.base \cup {PasswordPatternRecognizer} \cup custom]

AnalyzerOf(r) == NewAnalyzerEngine(registry, r).id

----------------------------------------------------------------------------
(* anonymize_text, lines 190-287 *)

\* The anonymized text: the text itself, or what ANONYMIZER.anonymize
\* returned for the arguments of lines 255-259
EmptyOps == [c \in {} |-> OperatorConfig("redact", NoParams)]
Plain(text) == [src |-> text, applied |-> <<>>, operators |-> EmptyOps, anonymized |-> FALSE]
Anonymized(text, analyzer_results, operators) ==
    [src |-> text, applied |-> analyzer_results, operators |-> operators, anonymized |-> TRUE]

EmptyCounts == [c \in {} |-> 0]

FailureResponse(error, text) ==
    [raised |-> FALSE, success |-> FALSE, error |-> error, anonymized_text |-> Plain(text),
     entities_found |-> EmptyCounts, total_entities |-> 0, analyzer_results |-> <<>>]

Raised(error) ==
    [raised |-> TRUE, success |-> FALSE, error |-> error, anonymized_text |-> Plain(""),
     entities_found |-> EmptyCounts, total_entities |-> 0, analyzer_results |-> <<>>]

NoResponse == FailureResponse("<none>", "")

\* lines 200-207: the exception raised before the analyzer is built
ConfigError(cj) ==
    IF cj.kind = "malformed" THEN "JSONDecodeError"
    ELSE IF cj.kind = "array" THEN "Invalid config: missing 'entities' list."
    ELSE IF cj.obj.entities.kind # "list" THEN "Invalid config: missing 'entities' list."
    ELSE IF \E i \in DOMAIN cj.obj.entities.items : cj.obj.entities.items[i].type = Absent
         THEN "KeyError: 'type'"
    ELSE "none"

\* line 204
EntityTypes(entities) == [i \in DOMAIN entities |-> entities[i].type]

\* line 207, and the truth test of line 165
CustomPatternsConfig(config) ==
    IF config.custom_patterns.kind = "list" THEN config.custom_patterns.items ELSE <<>>

\* lines 215-220
RECURSIVE AllTypesMutIgnoreEnabled(_, _)
AllTypesMutIgnoreEnabled(acc, cfgs) ==
    IF cfgs = <<>> THEN acc
    ELSE LET pc == Head(cfgs) IN
         IF pc.entity_type # Absent /\ pc.entity_type \notin SeqToSet(acc)
         THEN AllTypesMutIgnoreEnabled(Append(acc, pc.entity_type), Tail(cfgs))
         ELSE AllTypesMutIgnoreEnabled(acc, Tail(cfgs))

RECURSIVE CollectEntityTypes(_, _)
CollectEntityTypes(all_entity_types, cfgs) ==
    IF cfgs = <<>> THEN all_entity_types
    ELSE LET pc == Head(cfgs) IN
         IF IsEnabled(pc) /\ pc.entity_type \notin SeqToSet(all_entity_types)
         THEN CollectEntityTypes(Append(all_entity_types, pc.entity_type), Tail(cfgs))
         ELSE CollectEntityTypes(all_entity_types, Tail(cfgs))

\* lines 216-218: the exception raised while the types are collected
CollectError(config) ==
    IF config.custom_patterns.kind = "null" THEN "TypeError: 'NoneType' object is not iterable"
    ELSE IF \E i \in DOMAIN CustomPatternsConfig(config) :
                /\ IsEnabled(CustomPatternsConfig(config)[i])
                /\ CustomPatternsConfig(config)[i].entity_type = Absent
         THEN "KeyError: 'entity_type'"
    ELSE "none"

Put(f, k, v) == [x \in DOMAIN f \cup {k} |-> IF x = k THEN v ELSE f[x]]

\* lines 235-239
RECURSIVE EntityOperators(_, _)
EntityOperators(operators, entities) ==
    IF entities = <<>> THEN operators
    ELSE LET e == Head(entities) IN
         EntityOperators(
             Put(operators, e.type,
                 create_operator_config(e.anonymization_method, e.custom_replacement)),
             Tail(entities))

RECURSIVE PatternOperatorsMutKeep(_, _)
PatternOperatorsMutKeep(operators, cfgs) ==
    IF cfgs = <<>> THEN operators
    ELSE LET pc == Head(cfgs) IN
         IF IsEnabled(pc) /\ pc.entity_type \notin DOMAIN operators
         THEN PatternOperatorsMutKeep(
                  Put(operators, pc.entity_type,
                      create_operator_config(Get(pc.anonymization_method, "redact"),
                                             pc.custom_replacement)),
                  Tail(cfgs))
         ELSE PatternOperatorsMutKeep(operators, Tail(cfgs))

\* lines 242-248
RECURSIVE PatternOperators(_, _)
PatternOperators(operators, cfgs) ==
    IF cfgs = <<>> THEN operators
    ELSE LET pc == Head(cfgs) IN
         IF IsEnabled(pc)
         THEN PatternOperators(
                  Put(operators, pc.entity_type,
                      create_operator_config(Get(pc.anonymization_method, "redact"),
                                             pc.custom_replacement)),
                  Tail(cfgs))
         ELSE PatternOperators(operators, Tail(cfgs))

\* line 237: the exception raised while the operators are built
OperatorsError(config) ==
    IF \E i \in DOMAIN config.entities.items :
           config.entities.items[i].anonymization_method = Absent
    THEN "KeyError: 'anonymization_method'"
    ELSE "none"

\* lines 231-252
BuildOperators(config) ==
    LET operators == PatternOperators(EntityOperators(EmptyOps, config.entities.items),
                                      CustomPatternsConfig(config)) IN
    IF "DEFAULT" \notin DOMAIN operators
    THEN Put(operators, "DEFAULT",
             OperatorConfig("replace", [NoParams EXCEPT !.new_value = REDACTED]))
    ELSE operators

\* lines 262-264
CountMutDistinctStart(analyzer_results) ==
    LET kept == {i \in DOMAIN analyzer_results :
                    ~\E j \in DOMAIN analyzer_results :
                        /\ analyzer_results[j].start = analyzer_results[i].start
                        /\ analyzer_results[j].score > analyzer_results[i].score} IN
    [c \in {analyzer_results[i].entity_type : i \in kept} |->
        Cardinality({i \in kept : analyzer_results[i].entity_type = c})]

CountEntities(analyzer_results) ==
    [c \in {analyzer_results[i].entity_type : i \in DOMAIN analyzer_results} |->
        Cardinality({i \in DOMAIN analyzer_results : analyzer_results[i].entity_type = c})]

\* lines 271-279
EchoResults(text, analyzer_results) ==
    [i \in DOMAIN analyzer_results |->
        [entity_type |-> analyzer_results[i].entity_type,
         start |-> analyzer_results[i].start,
         end |-> analyzer_results[i].end,
         score |-> analyzer_results[i].score,
         text |-> <<text, analyzer_results[i].start, analyzer_results[i].end>>]]

\* lines 266-280
SuccessResponse(text, config, analyzer_results) ==
    [raised |-> FALSE, success |-> TRUE, error |-> "",
     anonymized_text |-> Anonymized(text, analyzer_results, BuildOperators(config)),
     entities_found |-> CountEntities(analyzer_results),
     total_entities |-> Len(analyzer_results),
     analyzer_results |-> EchoResults(text, analyzer_results)]

----------------------------------------------------------------------------
(* Inputs *)

Desc(name, pattern, entity_type, score, method, enabled) ==
    [name |-> name, pattern |-> pattern, entity_type |-> entity_type,
     confidence_score |-> score, anonymization_method |-> method,
     custom_replacement |-> Absent, enabled |-> enabled]

Entity(type, method, replacement) ==
    [type |-> type, anonymization_method |-> method, custom_replacement |-> replacement]

EmptyConfig ==
    [entities |-> [kind |-> "absent", items |-> <<>>],
     confidence_threshold |-> ScoreAbsent, language |-> Absent,
     custom_patterns |-> [kind |-> "absent", items |-> <<>>]]

Malformed == [kind |-> "malformed", obj |-> EmptyConfig]
JsonArray == [kind |-> "array", obj |-> EmptyConfig]
JsonObject(config) == [kind |-> "object", obj |-> config]

Config(entities, patterns) ==
    JsonObject([EmptyConfig EXCEPT !.entities = [kind |-> "list", items |-> entities],
                                   !.custom_patterns = [kind |-> "list", items |-> patterns]])

SeqsUpTo(S, n) == UNION {[1..k -> S] : k \in 0..n}

Injective(s) == \A i, j \in DOMAIN s : i # j => s[i] # s[j]

Texts == {"", "pw: hunter2!"}
TextLen(text) == IF text = "" THEN 0 ELSE 12

----------------------------------------------------------------------------
(* The calls *)

IdleReq ==
    [pc |-> "idle", text |-> "", config_json |-> Malformed, analyzer |-> 0,
     all_entity_types |-> <<>>, threshold |-> 0, language |-> "",
     analyzer_results |-> <<>>, response |-> NoResponse]

Done(r) == req[r].pc = "done"

\* import of the module: lines 6-14 set the flags; the class statement of
\* line 16 names PatternRecognizer, which is unbound when the import of
\* line 9 failed; line 173 builds the module-level ANALYZER
LoadModule ==
    /\ module = "unloaded"
    /\ PRESIDIO_AVAILABLE' = installed
    /\ IF installed
       THEN /\ module' = "loaded"
            /\ registry' = setup_analyzer_with_custom_patterns(registry, 0, <<>>)
       ELSE /\ module' = "failed"
            /\ registry' = registry
    /\ UNCHANGED <<installed, req, vin, vout, cin, cout>>

\* The host asks for anonymize_text of a module whose import raised
CallFailedModule(r, text) ==
    /\ module = "failed"
    /\ req[r].pc = "idle"
    /\ req' = [req EXCEPT ![r] = [IdleReq EXCEPT !.pc = "done", !.text = text,
                  !.response = Raised("NameError: name 'PatternRecognizer' is not defined")]]
    /\ UNCHANGED <<installed, module, PRESIDIO_AVAILABLE, registry, vin, vout, cin, cout>>

\* anonymize_text, lines 192-220: up to the call of analyzer.analyze
Call(r, text, cj) ==
    /\ module = "loaded"
    /\ req[r].pc = "idle"
    /\ LET fail(error) == [IdleReq EXCEPT !.pc = "done", !.text = text, !.config_json = cj,
                                          !.response = FailureResponse(error, text)]
           config == cj.obj
           threshold == IF config.confidence_threshold.k = "absent" THEN DEFAULT_THRESHOLD
                        ELSE config.confidence_threshold.v IN
       IF ~PRESIDIO_AVAILABLE
       THEN /\ req' = [req EXCEPT ![r] = fail("Presidio not available")]
            /\ registry' = registry
       ELSE IF ConfigError(cj) # "none"
       THEN /\ req' = [req EXCEPT ![r] = fail(ConfigError(cj))]
            /\ registry' = registry
       ELSE IF CreateRaises(CustomPatternsConfig(config))
       THEN /\ req' = [req EXCEPT ![r] = fail("create_custom_recognizers raised")]
            /\ registry' = registry
       ELSE /\ registry' = setup_analyzer_with_custom_patterns(
                               registry, r, CustomPatternsConfig(config))
            /\ IF CollectError(config) # "none"
               THEN req' = [req EXCEPT ![r] = fail(CollectError(config))]
               ELSE req' = [req EXCEPT ![r] =
                       [IdleReq EXCEPT !.pc = "analyzing", !.text = text, !.config_json = cj,
                            !.analyzer = AnalyzerOf(r),
                            !.all_entity_types =
                                CollectEntityTypes(EntityTypes(config.entities.items),
                                                   CustomPatternsConfig(config)),
                            !.threshold = threshold,
                            !.language = Get(config.language, "en")]]
    /\ UNCHANGED <<installed, module, PRESIDIO_AVAILABLE, vin, vout, cin, cout>>

\* analyzer.analyze, lines 223-228: the spans it can return are produced
\* by a recognizer of the analyzer's registry for a requested entity, with
\* the score of one of its patterns, at or above the threshold
Spans(r, Rngs) ==
    {[entity_type |-> rec.supported_entity, start |-> rng[1], end |-> rng[2],
      score |-> rec.patterns[i].score, recognizer |-> rec.name] :
        <<rec, i, rng>> \in
            {x \in registry[req[r].analyzer] \X (1..6) \X Rngs :
                /\ x[2] \in DOMAIN x[1].patterns
                /\ x[1].supported_entity \in SeqToSet(req[r].all_entity_types)
                /\ x[1].patterns[x[2]].score >= req[r].threshold
                /\ x[3][2] <= TextLen(req[r].text)}}

Outcomes(r, maxres, Rngs) ==
    {[exc |-> e, analyzer_results |-> <<>>] : e \in {"analyze", "anonymize"}}
    \cup {[exc |-> "none", analyzer_results |-> rs] :
             rs \in {s \in SeqsUpTo(Spans(r, Rngs), maxres) : Injective(s)}}

\* anonymize_text, lines 223-287
Complete(r, out) ==
    /\ req[r].pc = "analyzing"
    /\ LET text == req[r].text
           config == req[r].config_json.obj
           response ==
               IF out.exc = "analyze" THEN FailureResponse("analyze raised", text)
               ELSE IF OperatorsError(config) # "none"
                    THEN FailureResponse(OperatorsError(config), text)
               ELSE IF out.exc = "anonymize" THEN FailureResponse("anonymize raised", text)
               ELSE SuccessResponse(text, config, out.analyzer_results) IN
       req' = [req EXCEPT ![r].pc = "done", ![r].response = response,
                          ![r].analyzer_results =
                              IF response.success THEN out.analyzer_results ELSE <<>>]
    /\ UNCHANGED <<installed, module, PRESIDIO_AVAILABLE, registry, vin, vout, cin, cout>>

\* The caller takes the response; the analyzer of the call is dropped
Return(r) ==
    /\ req[r].pc = "done"
    /\ module = "loaded"
    /\ req' = [req EXCEPT ![r] = IdleReq]
    /\ registry' = [registry EXCEPT ![r] = {}]
    /\ UNCHANGED <<installed, module, PRESIDIO_AVAILABLE, vin, vout, cin, cout>>

----------------------------------------------------------------------------
(* Concurrent callers *)

NReq == 2
ConcMaxPatterns == 1
ConcMaxResults == 1

Requests == 1..NReq

NoInput == [kind |-> "malformed", obj |-> Desc(Absent, Absent, Absent, ScoreAbsent, Absent, Absent)]
NoOutput == [called |-> FALSE, raised |-> FALSE, success |-> FALSE, error |-> ""]
NoRecognizers == [called |-> FALSE, raised |-> FALSE, recognizers |-> <<>>]

\* Before the module is imported, nothing called
InitModule ==
    /\ installed \in BOOLEAN
    /\ module = "unloaded"
    /\ PRESIDIO_AVAILABLE = TRUE
    /\ registry = [a \in 0..NReq |-> {}]
    /\ req = [r \in Requests |-> IdleReq]
    /\ vout = NoOutput
    /\ cout = NoRecognizers

Init ==
    /\ InitModule
    /\ vin = NoInput
    /\ cin = <<>>

ConcPatternPool ==
    {Desc("pA", "a+", "SECRET_A", ScoreAbsent, Absent, Absent),
     Desc("pB", "b+", "SECRET_B", Num(90), "hash", "true"),
     Desc("pC", "c+", "SECRET_C", ScoreAbsent, Absent, "false")}

ConcConfigs ==
    {Malformed} \cup {Config(<<>>, ps) : ps \in SeqsUpTo(ConcPatternPool, ConcMaxPatterns)}

ConcRanges == {<<0, 4>>}

ConcCall(r) == req[r].pc = "idle" /\ \E text \in {"pw: hunter2!"}, cj \in ConcConfigs : Call(r, text, cj)

ConcComplete(r) == \E out \in Outcomes(r, ConcMaxResults, ConcRanges) : Complete(r, out)

ConcFailedCall(r) == \E text \in Texts : CallFailedModule(r, text)

Next ==
    \/ LoadModule
    \/ \E r \in Requests : ConcFailedCall(r)
    \/ \E r \in Requests : ConcCall(r)
    \/ \E r \in Requests : ConcComplete(r)
    \/ \E r \in Requests : Return(r)

Spec == Init /\ [][Next]_vars

----------------------------------------------------------------------------
(* Claims checked with concurrent callers *)

\* C1: every call of anonymize_text ends without an exception reaching the
\* caller, and a failure carries success = false, an error string and the
\* input text unmodified.
C1_FailureEchoesInput ==
    \A r \in Requests :
        Done(r) =>
            /\ ~req[r].response.raised
            /\ ~req[r].response.success =>
                   /\ req[r].response.error # ""
                   /\ req[r].response.anonymized_text = Plain(req[r].text)

BuiltinRegistry == PredefinedRecognizers \cup {PasswordPatternRecognizer}

OwnRegistry(r) ==
    BuiltinRegistry
    \cup SeqToSet(create_custom_recognizers(CustomPatternsConfig(req[r].config_json.obj)))

\* C7: no detector state persists between requests: the registry a request
\* analyzes with holds the built-in recognizers and the recognizers compiled
\* from that request's own enabled custom patterns and nothing else, its
\* spans come from those recognizers only, its analyzer is neither the
\* module-level ANALYZER nor another request's, and ANALYZER keeps the
\* registry it was loaded with.
C7_NoDetectorStatePersists ==
    /\ module = "loaded" => registry[0] = BuiltinRegistry
    /\ \A r \in Requests :
        /\ req[r].pc = "analyzing" =>
               /\ registry[req[r].analyzer] = OwnRegistry(r)
               /\ req[r].analyzer # 0
               /\ \A q \in Requests \ {r} :
                      req[q].pc = "analyzing" => req[q].analyzer # req[r].analyzer
        /\ (Done(r) /\ req[r].response.success) =>
               \A i \in DOMAIN req[r].analyzer_results :
                   req[r].analyzer_results[i].recognizer \in
                       {rec.name : rec \in OwnRegistry(r)}

C7_Witness ==
    /\ Done(1) /\ req[1].response.success
    /\ Len(req[1].analyzer_results) = 1
    /\ req[1].analyzer_results[1].recognizer = "pA"
    /\ req[2].pc = "analyzing"
    /\ \E rec \in registry[req[2].analyzer] : rec.name = "pB"
    /\ ~\E rec \in registry[req[2].analyzer] : rec.name = "pA"

----------------------------------------------------------------------------
(* One caller, the operators *)

OpMaxEntities == 1
OpMaxPatterns == 2
OpMaxResults == 1

OpEntityPool ==
    {Entity(t, m, Absent) : t \in {"EMAIL_ADDRESS", "DEFAULT"}, m \in {"mask", "bogus"}}
    \cup {Entity("EMAIL_ADDRESS", "replace", "<EMAIL>"), Entity("EMAIL_ADDRESS", Absent, Absent)}

OpPatternPool ==
    {Desc("p1", "a+", et, ScoreAbsent, m, en) :
        et \in {"EMAIL_ADDRESS", "SECRET"}, m \in {Absent, "hash", "bogus"},
        en \in {Absent, "false"}}

OpConfigs ==
    {Config(es, ps) : es \in SeqsUpTo(OpEntityPool, OpMaxEntities),
                      ps \in SeqsUpTo(OpPatternPool, OpMaxPatterns)}

OpRanges == {<<0, 4>>}

InitPipeline == Init /\ installed

OpCall == req[1].pc = "idle" /\ \E cj \in OpConfigs : Call(1, "pw: hunter2!", cj)

OpComplete == \E out \in Outcomes(1, OpMaxResults, OpRanges) : Complete(1, out)

OpReturn == Return(1)

NextOperators == LoadModule \/ OpCall \/ OpComplete \/ OpReturn

SpecOperators == InitPipeline /\ [][NextOperators]_vars

InvalidMethod(m) == m # Absent /\ m \notin valid_methods

HasInvalidMethod(config) ==
    \/ \E i \in DOMAIN config.entities.items :
           InvalidMethod(config.entities.items[i].anonymization_method)
    \/ \E i \in DOMAIN CustomPatternsConfig(config) :
           /\ IsEnabled(CustomPatternsConfig(config)[i])
           /\ InvalidMethod(CustomPatternsConfig(config)[i].anonymization_method)

\* A configuration the validation of the specification lets through
WellFormed(config) ==
    /\ config.entities.kind = "list"
    /\ config.custom_patterns.kind # "null"
    /\ \A i \in DOMAIN config.entities.items :
           /\ Truthy(config.entities.items[i].type)
           /\ config.entities.items[i].anonymization_method \in valid_methods
    /\ \A i \in DOMAIN CustomPatternsConfig(config) :
           LET pc == CustomPatternsConfig(config)[i] IN
           /\ Truthy(pc.name) /\ Truthy(pc.pattern) /\ Truthy(pc.entity_type)
           /\ ReCompile(pc.pattern) = "ok"
           /\ ~InvalidMethod(pc.anonymization_method)

\* C2 as claimed: a request whose configuration gives, in an entity entry or
\* an enabled custom pattern, an anonymization_method outside redact,
\* replace, mask, hash, encrypt ends in a failure response.
C2_InvalidMethodRejected ==
    \A r \in Requests :
        (Done(r) /\ req[r].config_json.kind = "object"
                 /\ HasInvalidMethod(req[r].config_json.obj))
            => ~req[r].response.success

Max(S) == CHOOSE x \in S : \A y \in S : y <= x

DefaultOperator == OperatorConfig("replace", [NoParams EXCEPT !.new_value = REDACTED])

\* The entry of the configuration that names category c last, enabled
\* custom patterns counting after the entities
Decider(config, c) ==
    LET es == config.entities.items
        ps == CustomPatternsConfig(config)
        P == {i \in DOMAIN ps : IsEnabled(ps[i]) /\ ps[i].entity_type = c}
        E == {i \in DOMAIN es : es[i].type = c} IN
    IF P # {}
    THEN [from |-> "pattern", method |-> Get(ps[Max(P)].anonymization_method, "redact"),
          replacement |-> ps[Max(P)].custom_replacement]
    ELSE IF E # {}
    THEN [from |-> "entity", method |-> es[Max(E)].anonymization_method,
          replacement |-> es[Max(E)].custom_replacement]
    ELSE [from |-> "none", method |-> Absent, replacement |-> Absent]

ConfiguredTypes(config) ==
    {config.entities.items[i].type : i \in DOMAIN config.entities.items}
    \cup {CustomPatternsConfig(config)[i].entity_type :
             i \in {j \in DOMAIN CustomPatternsConfig(config) :
                       IsEnabled(CustomPatternsConfig(config)[j])}}

\* The errors of a failure response; none of them rejects a method or a regex
PipelineErrors ==
    {"JSONDecodeError", "Invalid config: missing 'entities' list.", "KeyError: 'type'",
     "TypeError: 'NoneType' object is not iterable", "KeyError: 'entity_type'",
     "KeyError: 'anonymization_method'", "analyze raised", "anonymize raised"}

\* C2 as amended: anonymize_text rejects no anonymization_method: a method
\* outside redact, replace, mask, hash, encrypt in the entry that decides a
\* category gives that category the redact operator, the response can be a
\* success, and no failure is a rejection of the method.
C2_InvalidMethodBecomesRedact ==
    \A r \in Requests :
        /\ (Done(r) /\ req[r].response.success) =>
               LET operators == req[r].response.anonymized_text.operators IN
               \A c \in DOMAIN operators :
                   /\ operators[c].operator_name \in valid_methods
                   /\ InvalidMethod(Decider(req[r].config_json.obj, c).method) =>
                          operators[c] = OperatorConfig("redact", NoParams)
        /\ (Done(r) /\ ~req[r].response.success) => req[r].response.error \in PipelineErrors
        /\ (Done(r) /\ ~req[r].response.success
                    /\ req[r].response.error \notin {"analyze raised", "anonymize raised"}) =>
               ~WellFormed(req[r].config_json.obj)
                  \/ req[r].config_json.kind # "object"

C2_Witness ==
    /\ Done(1) /\ req[1].response.success
    /\ Len(req[1].config_json.obj.entities.items) = 1
    /\ req[1].config_json.obj.entities.items[1] = Entity("EMAIL_ADDRESS", "bogus", Absent)
    /\ CustomPatternsConfig(req[1].config_json.obj) = <<>>
    /\ req[1].response.anonymized_text.operators["EMAIL_ADDRESS"].operator_name = "redact"
    /\ Len(req[1].analyzer_results) = 1

\* The operator the claimed precedence gives a category
PrecedenceAllows(config, c, op) ==
    LET es == config.entities.items
        ps == CustomPatternsConfig(config) IN
    IF \E i \in DOMAIN es : es[i].type = c
    THEN \E i \in DOMAIN es :
             /\ es[i].type = c
             /\ op = create_operator_config(es[i].anonymization_method,
                                            es[i].custom_replacement)
    ELSE IF \E i \in DOMAIN ps : IsEnabled(ps[i]) /\ ps[i].entity_type = c
    THEN \E i \in DOMAIN ps :
             /\ IsEnabled(ps[i]) /\ ps[i].entity_type = c
             /\ op = create_operator_config(Get(ps[i].anonymization_method, "redact"),
                                            ps[i].custom_replacement)
    ELSE c = "DEFAULT" /\ op = DefaultOperator

\* C4 as claimed: for a well-formed configuration, the operator of a
\* category comes from its entry in entities when it has one, else from an
\* enabled custom pattern naming it, else it is the DEFAULT operator
\* Replace '[REDACTED]'.
C4_EntityEntryTakesPrecedence ==
    \A r \in Requests :
        (Done(r) /\ req[r].response.success /\ WellFormed(req[r].config_json.obj)) =>
            LET operators == req[r].response.anonymized_text.operators IN
            \A c \in DOMAIN operators :
                PrecedenceAllows(req[r].config_json.obj, c, operators[c])

\* C4 as amended: the operators passed to the anonymizer are keyed by the
\* entity types, the entity types of the enabled custom patterns and
\* DEFAULT; the operator of a category is that of the last enabled custom
\* pattern naming it (redact when it gives no method), else that of its
\* last entry in entities, else, for DEFAULT, Replace '[REDACTED]'.
C4_CustomPatternOverridesEntity ==
    \A r \in Requests :
        (Done(r) /\ req[r].response.success) =>
            LET operators == req[r].response.anonymized_text.operators
                config == req[r].config_json.obj IN
            /\ DOMAIN operators = ConfiguredTypes(config) \cup {"DEFAULT"}
            /\ \A c \in DOMAIN operators :
                   LET d == Decider(config, c) IN
                   operators[c] =
                       IF d.from = "none" THEN DefaultOperator
                       ELSE create_operator_config(d.method, d.replacement)

C4_Witness ==
    /\ Done(1) /\ req[1].response.success
    /\ LET config == req[1].config_json.obj IN
       /\ Len(config.entities.items) = 1
       /\ config.entities.items[1] = Entity("EMAIL_ADDRESS", "mask", Absent)
       /\ Len(CustomPatternsConfig(config)) = 1
       /\ CustomPatternsConfig(config)[1] =
              Desc("p1", "a+", "EMAIL_ADDRESS", ScoreAbsent, "hash", Absent)
    /\ req[1].response.anonymized_text.operators["EMAIL_ADDRESS"].operator_name = "hash"
    /\ req[1].response.anonymized_text.operators["DEFAULT"] = DefaultOperator

----------------------------------------------------------------------------
(* One caller, the counts *)

CountMaxResults == 2

WithThreshold(cj, t) == [cj EXCEPT !.obj.confidence_threshold = t]

CountConfigs ==
    {WithThreshold(
         Config(<<Entity("EMAIL_ADDRESS", "mask", Absent), Entity("PASSWORD", "redact", Absent)>>,
                <<Desc("p1", "a+", "SECRET", sc, Absent, Absent)>>), t) :
        sc \in {ScoreAbsent, Num(50)}, t \in {ScoreAbsent, Num(85)}}

CountRanges == {<<0, 4>>, <<4, 12>>}

CountCall == req[1].pc = "idle" /\ \E cj \in CountConfigs : Call(1, "pw: hunter2!", cj)

CountComplete == \E out \in Outcomes(1, CountMaxResults, CountRanges) : Complete(1, out)

CountReturn == Return(1)

NextCounting == LoadModule \/ CountCall \/ CountComplete \/ CountReturn

SpecCounting == InitPipeline /\ [][NextCounting]_vars

\* The spans left when, of two detections of different categories starting
\* at the same offset, the one with the lower score is dropped
AppliedAtDistinctStarts(analyzer_results) ==
    {i \in DOMAIN analyzer_results :
        ~\E j \in DOMAIN analyzer_results :
            /\ analyzer_results[j].start = analyzer_results[i].start
            /\ analyzer_results[j].entity_type # analyzer_results[i].entity_type
            /\ analyzer_results[j].score > analyzer_results[i].score}

\* C5 as claimed: entities_found and total_entities of a success response
\* count the applied spans only: a detection that shares its start with a
\* detection of another category and a higher score is not counted.
C5_CountsAppliedSpansOnly ==
    \A r \in Requests :
        (Done(r) /\ req[r].response.success) =>
            LET rs == req[r].analyzer_results
                kept == AppliedAtDistinctStarts(rs) IN
            /\ req[r].response.total_entities = Cardinality(kept)
            /\ \A c \in {rs[i].entity_type : i \in DOMAIN rs} :
                   LET n == Cardinality({i \in kept : rs[i].entity_type = c}) IN
                   IF n = 0 THEN c \notin DOMAIN req[r].response.entities_found
                   ELSE /\ c \in DOMAIN req[r].response.entities_found
                        /\ req[r].response.entities_found[c] = n

\* C5 as amended: entities_found and total_entities of a success response
\* count every span detection returned, the spans echoed in
\* analyzer_results, whether or not the anonymizer applied its operator: a
\* detection that shares its start with a higher-score detection of another
\* category is counted too.
C5_CountsEveryDetection ==
    \A r \in Requests :
        (Done(r) /\ req[r].response.success) =>
            LET rs == req[r].analyzer_results
                found == req[r].response.entities_found IN
            /\ req[r].response.total_entities = Len(rs)
            /\ Len(req[r].response.analyzer_results) = Len(rs)
            /\ req[r].response.anonymized_text.applied = rs
            /\ DOMAIN found = {rs[i].entity_type : i \in DOMAIN rs}
            /\ \A c \in DOMAIN found :
                   found[c] = Cardinality({i \in DOMAIN rs : rs[i].entity_type = c})

C5_Witness ==
    /\ Done(1) /\ req[1].response.success
    /\ Len(req[1].analyzer_results) = 2
    /\ req[1].analyzer_results[1].start = req[1].analyzer_results[2].start
    /\ req[1].analyzer_results[1].entity_type = "SECRET"
    /\ req[1].analyzer_results[2].entity_type = "PASSWORD"
    /\ req[1].analyzer_results[1].score < req[1].analyzer_results[2].score
    /\ req[1].response.entities_found = [c \in {"SECRET", "PASSWORD"} |-> 1]
    /\ req[1].response.total_entities = 2

----------------------------------------------------------------------------
(* One caller, the requested categories *)

CatMaxEntities == 2
CatMaxPatterns == 2
CatMaxResults == 1

CatEntityPool == {Entity(t, "mask", Absent) : t \in {"EMAIL_ADDRESS", "SECRET"}}

CatPatternPool ==
    {Desc(np[1], np[2], et, ScoreAbsent, Absent, en) :
        np \in {<<"p1", "a+">>, <<"p2", "(">>},
        et \in {"EMAIL_ADDRESS", "SECRET", Absent}, en \in {Absent, "false"}}

CatConfigs ==
    {Config(es, ps) : es \in SeqsUpTo(CatEntityPool, CatMaxEntities),
                      ps \in SeqsUpTo(CatPatternPool, CatMaxPatterns)}

CatRanges == {<<0, 4>>}

CatCall == req[1].pc = "idle" /\ \E cj \in CatConfigs : Call(1, "pw: hunter2!", cj)

CatComplete == \E out \in Outcomes(1, CatMaxResults, CatRanges) : Complete(1, out)

CatReturn == Return(1)

NextCategories == LoadModule \/ CatCall \/ CatComplete \/ CatReturn

SpecCategories == InitPipeline /\ [][NextCategories]_vars

\* The enabled custom patterns whose regex does not compile
BadRegexPatterns(config) ==
    {i \in DOMAIN CustomPatternsConfig(config) :
        /\ IsEnabled(CustomPatternsConfig(config)[i])
        /\ CustomPatternsConfig(config)[i].pattern \in BadRegexes}

HasBadRegex(config) == BadRegexPatterns(config) # {}

\* C3 as claimed: a request with an enabled custom pattern whose regex does
\* not compile never reaches detection and ends in a failure response.
C3_BadRegexFailsBeforeDetection ==
    \A r \in Requests :
        (req[r].config_json.kind = "object" /\ HasBadRegex(req[r].config_json.obj)) =>
            /\ req[r].pc # "analyzing"
            /\ Done(r) => ~req[r].response.success

\* C3 as amended: anonymize_text passes over an enabled custom pattern
\* whose regex does not compile: no recognizer is registered for it, its
\* entity_type is still requested from detection and still given an
\* operator, detection runs with the other recognizers, no span comes from
\* the pattern, and no failure response is a rejection of the regex.
C3_BadRegexPatternSkipped ==
    \A r \in Requests :
        (req[r].config_json.kind = "object" /\ HasBadRegex(req[r].config_json.obj)) =>
            LET config == req[r].config_json.obj
                ps == CustomPatternsConfig(config)
                bad == BadRegexPatterns(config) IN
            /\ req[r].pc = "analyzing" =>
                   /\ \A rec \in registry[req[r].analyzer] : \A i \in DOMAIN rec.patterns :
                          rec.patterns[i].regex \notin BadRegexes
                   /\ registry[req[r].analyzer] =
                          BuiltinRegistry
                          \cup {RecognizerOf(ps[i]) :
                                   i \in {j \in DOMAIN ps : /\ IsEnabled(ps[j])
                                                           /\ RecognizerError(ps[j]) = "none"}}
                   /\ \A i \in bad : ps[i].entity_type \in SeqToSet(req[r].all_entity_types)
            /\ (Done(r) /\ req[r].response.success) =>
                   /\ \A i \in DOMAIN req[r].analyzer_results :
                          req[r].analyzer_results[i].recognizer # "p2"
                   /\ \A i \in bad :
                          ps[i].entity_type \in DOMAIN req[r].response.anonymized_text.operators
            /\ (Done(r) /\ ~req[r].response.success) =>
                   req[r].response.error \in PipelineErrors

C3_Witness ==
    /\ Done(1) /\ req[1].response.success
    /\ req[1].config_json.obj.entities.items = <<Entity("EMAIL_ADDRESS", "mask", Absent)>>
    /\ CustomPatternsConfig(req[1].config_json.obj) =
           <<Desc("p2", "(", "SECRET", ScoreAbsent, Absent, Absent)>>
    /\ req[1].all_entity_types = <<"EMAIL_ADDRESS", "SECRET">>
    /\ Len(req[1].analyzer_results) = 1
    /\ "SECRET" \in DOMAIN req[1].response.anonymized_text.operators

\* The request with its disabled custom patterns removed
WithoutDisabled(cj) ==
    [cj EXCEPT !.obj.custom_patterns.items = SelectSeq(@, IsEnabled)]

\* The error anonymize_text reports for a configuration, "none" without one
FirstError(cj) ==
    IF ConfigError(cj) # "none" THEN ConfigError(cj)
    ELSE IF CollectError(cj.obj) # "none" THEN CollectError(cj.obj)
    ELSE OperatorsError(cj.obj)

----------------------------------------------------------------------------
(* create_custom_recognizers on its own *)

MaxDescriptors == 2

DescriptorPool ==
    {Desc(n, pat, et, sc, Absent, en) :
        n \in {"n1", Absent}, pat \in {"a+", "(", Absent, NonString},
        et \in {"SECRET", Absent}, sc \in {ScoreAbsent, Num(90)}, en \in {Absent, "false"}}

InitRecognizers ==
    /\ InitModule /\ installed
    /\ vin = NoInput
    /\ cin \in SeqsUpTo(DescriptorPool, MaxDescriptors)

CreateRecognizers ==
    /\ ~cout.called
    /\ cout' = [called |-> TRUE, raised |-> CreateRaises(cin),
                recognizers |-> IF CreateRaises(cin) THEN <<>>
                                ELSE create_custom_recognizers(cin)]
    /\ UNCHANGED <<installed, module, PRESIDIO_AVAILABLE, registry, req, vin, vout, cin>>

NextRecognizers == CreateRecognizers

SpecRecognizers == InitRecognizers /\ [][NextRecognizers]_vars

\* The descriptors of the claim that get a recognizer
Accepted(pc) ==
    /\ pc.enabled \in {Absent, "true"}
    /\ pc.name # Absent /\ pc.pattern # Absent /\ pc.entity_type # Absent
    /\ pc.pattern \notin BadRegexes \cup {NonString}

\* C9: create_custom_recognizers raises nothing and returns, in input
\* order, one recognizer for each descriptor that is enabled (enabled absent
\* counts as true), has name, pattern and entity_type and has a regex that
\* compiles, and nothing for the others; the recognizer carries the
\* descriptor's name, regex and entity type, and score 0.8 when the
\* descriptor has no confidence_score.
C9_RecognizersForValidDescriptors ==
    cout.called =>
        LET idx == {i \in DOMAIN cin : Accepted(cin[i])}
            recs == cout.recognizers
            nth(k) == CHOOSE i \in idx : Cardinality({j \in idx : j <= i}) = k IN
        /\ ~cout.raised
        /\ Len(recs) = Cardinality(idx)
        /\ \A k \in DOMAIN recs :
               LET pc == cin[nth(k)] IN
               /\ recs[k].name = pc.name
               /\ recs[k].supported_entity = pc.entity_type
               /\ Len(recs[k].patterns) = 1
               /\ recs[k].patterns[1].name = pc.name
               /\ recs[k].patterns[1].regex = pc.pattern
               /\ recs[k].patterns[1].score =
                      IF pc.confidence_score = ScoreAbsent THEN 80
                      ELSE pc.confidence_score.v

C9_Witness ==
    /\ cout.called
    /\ Len(cin) = 2
    /\ cin[1].pattern = "(" /\ cin[1].enabled = Absent
    /\ Accepted(cin[2]) /\ cin[2].confidence_score = ScoreAbsent
    /\ Len(cout.recognizers) = 1
    /\ cout.recognizers[1].patterns[1].score = 80

----------------------------------------------------------------------------
(* validate_custom_pattern on its own *)

ValidateScores ==
    {ScoreAbsent, Num(5), Num(10), Num(80), Num(100), Num(150),
     ScoreNaN, ScoreTrue, ScoreFalse, ScoreString, ScoreNull}

ValidateInputs ==
    {NoInput, [kind |-> "array", obj |-> NoInput.obj]}
    \cup {[kind |-> "object", obj |-> Desc(n, pat, et, sc, m, Absent)] :
             n \in {"n1", "", Absent}, pat \in {"a+", "(", "", Absent, NonString},
             et \in {"SECRET", "", Absent}, sc \in ValidateScores,
             m \in {Absent, "redact", "encrypt", "bogus", NonString}}

InitValidate ==
    /\ InitModule /\ installed
    /\ cin = <<>>
    /\ vin \in ValidateInputs

Validate ==
    /\ ~vout.called
    /\ vout' = [called |-> TRUE, raised |-> validate_custom_pattern(vin).raised,
                success |-> validate_custom_pattern(vin).success,
                error |-> validate_custom_pattern(vin).error]
    /\ UNCHANGED <<installed, module, PRESIDIO_AVAILABLE, registry, req, vin, cin, cout>>

NextValidate == Validate

SpecValidate == InitValidate /\ [][NextValidate]_vars

\* The checks of the claim, in its order; "" when all pass
FirstFailingCheck(pc) ==
    IF pc.name \in {Absent, ""} THEN "Missing required field: name"
    ELSE IF pc.pattern \in {Absent, ""} THEN "Missing required field: pattern"
    ELSE IF pc.entity_type \in {Absent, ""} THEN "Missing required field: entity_type"
    ELSE IF pc.pattern \in BadRegexes THEN "Invalid regex pattern"
    ELSE IF pc.pattern = NonString THEN "first argument must be string or compiled pattern"
    ELSE IF ~(\/ pc.confidence_score = ScoreAbsent
              \/ /\ pc.confidence_score.k = "num"
                 /\ pc.confidence_score.v >= 10
                 /\ pc.confidence_score.v <= 100)
         THEN "Confidence score must be between 0.1 and 1.0"
    ELSE IF pc.anonymization_method \notin valid_methods \cup {Absent}
         THEN "Invalid anonymization method"
    ELSE ""

\* C8: validate_custom_pattern raises nothing, succeeds exactly when name,
\* pattern and entity_type are non-empty, the pattern compiles, the
\* confidence score (0.8 when absent) is a number in [0.1, 1.0] and the
\* method (redact when absent) is one of the five kinds, and otherwise
\* returns the failure of the first failing check in that order.
C8_ValidatorFailsFast ==
    (vout.called /\ vin.kind = "object") =>
        /\ ~vout.raised
        /\ vout.success <=> FirstFailingCheck(vin.obj) = ""
        /\ ~vout.success => vout.error = FirstFailingCheck(vin.obj)

====
